---- MODULE Spec2Model ----
(***************************************************************************)
(* A model of log_analyzer.py (Python 2): get_latest_logfile,              *)
(* logfile_generator, median, percentage, calculate and main.              *)
(*                                                                         *)
(* Representation.                                                         *)
(*  - None is the empty tuple <<>>, a present value v is <<v>>.            *)
(*  - A float is a pair <<n, d>> of integers with d >= 0: the rational n/d *)
(*    when d > 0 and NaN when d = 0.  Rounding is not modelled: all values *)
(*    the model computes are small rationals that doubles order exactly.   *)
(*  - A log line is the token list that row.strip().split() produces.      *)
(*  - A directory entry is a record of the parts of its name               *)
(*    (stem, 8 digits, suffix) and whether it is a regular file.           *)
(***************************************************************************)
EXTENDS Integers, Sequences, FiniteSets, TLC

VARIABLES
    pc,               \* position of the run in main / calculate
    calls,            \* functions main has called so far, in order
    scanned,          \* entries of os.listdir(log_dir) iterated so far
    max_datetime,     \* get_latest_logfile: local
    latest_logfile,   \* get_latest_logfile: local
    logfile,          \* main: result of get_latest_logfile
    error_limit,      \* calculate: error_limit_perc_allowed
    consumed,         \* lines of the log file read so far
    yielded,          \* rows logfile_generator has yielded so far
    rows_count,       \* calculate: local
    errors_count,     \* calculate: local
    total_duration,   \* calculate: local
    rows_by_url,      \* calculate: local dict, a function url -> record
    values_order,     \* order in which rows_by_url.values() listed the keys
    rows,             \* main: result of calculate
    report,           \* rows written by render_report
    error,            \* exception that ended the run
    arr,              \* median: argument
    med               \* median: result

vars == <<pc, calls, scanned, max_datetime, latest_logfile, logfile,
          error_limit, consumed, yielded, rows_count, errors_count,
          total_duration, rows_by_url, values_order, rows, report, error,
          arr, med>>

\* Bounds of the model.
MaxFiles == 3
MaxRows == 3
MaxArr == 4

None == <<>>
Some(v) == <<v>>

(***************************************************************************)
(* Floats                                                                  *)
(***************************************************************************)
NaN == <<0, 0>>
Num(n) == <<n, 1>>
IsNaN(a) == a[2] = 0

\* a < b on floats: False when either side is NaN.
FLt(a, b) == ~IsNaN(a) /\ ~IsNaN(b) /\ a[1] * b[2] < b[1] * a[2]

\* a == b on floats: False when either side is NaN.
FEq(a, b) == ~IsNaN(a) /\ ~IsNaN(b) /\ a[1] * b[2] = b[1] * a[2]

FAdd(a, b) == IF IsNaN(a) \/ IsNaN(b) THEN NaN
              ELSE <<a[1] * b[2] + b[1] * a[2], a[2] * b[2]>>

\* a / b for b # 0, with the denominator kept positive.
FDiv(a, b) == IF IsNaN(a) \/ IsNaN(b) THEN NaN
              ELSE IF a[2] * b[1] < 0 THEN <<-(a[1] * b[2]), -(a[2] * b[1])>>
              ELSE <<a[1] * b[2], a[2] * b[1]>>

IsZero(a) == ~IsNaN(a) /\ a[1] = 0

\* sum(seq): the left fold from 0.
RECURSIVE FSumFrom(_, _, _)
FSumFrom(s, i, acc) == IF i > Len(s) THEN acc ELSE FSumFrom(s, i + 1, FAdd(acc, s[i]))
FSum(s) == FSumFrom(s, 1, Num(0))

\* max(seq): keeps the first element and replaces it by each later item > it.
RECURSIVE FMaxFrom(_, _, _)
FMaxFrom(s, i, m) == IF i > Len(s) THEN m
                     ELSE FMaxFrom(s, i + 1, IF FLt(m, s[i]) THEN s[i] ELSE m)
FMax(s) == FMaxFrom(s, 2, s[1])

(***************************************************************************)
(* list.sort() for fewer than 64 elements: one natural run is counted      *)
(* (reversed when strictly descending) and the rest is inserted by binary  *)
(* insertion; every comparison is key[x] < key[y].  The operators work on  *)
(* a sequence s of indices into the key sequence K.                        *)
(***************************************************************************)
Reverse(s) == [i \in 1..Len(s) |-> s[Len(s) + 1 - i]]

RECURSIVE RunLen(_, _, _, _)
RunLen(K, s, n, desc) ==
    IF n = Len(s) THEN n
    ELSE IF FLt(K[s[n + 1]], K[s[n]]) = desc THEN RunLen(K, s, n + 1, desc)
    ELSE n

RECURSIVE BinPos(_, _, _, _, _)
BinPos(K, s, pivot, l, r) ==
    IF l >= r THEN l
    ELSE LET p == l + ((r - l) \div 2)
         IN IF FLt(K[pivot], K[s[p]]) THEN BinPos(K, s, pivot, l, p)
            ELSE BinPos(K, s, pivot, p + 1, r)

InsertAt(s, pos, x) ==
    [i \in 1..(Len(s) + 1) |-> IF i < pos THEN s[i] ELSE IF i = pos THEN x ELSE s[i - 1]]

RECURSIVE BinarySort(_, _, _)
BinarySort(K, s, start) ==
    IF start > Len(s) THEN s
    ELSE LET pivot == s[start]
             sortedPart == SubSeq(s, 1, start - 1)
             pos == BinPos(K, sortedPart, pivot, 1, start)
         IN BinarySort(K, InsertAt(sortedPart, pos, pivot) \o SubSeq(s, start + 1, Len(s)),
                       start + 1)

ListSort(K, s) ==
    IF Len(s) < 2 THEN s
    ELSE LET desc == FLt(K[s[2]], K[s[1]])
             n == RunLen(K, s, 2, desc)
             run == IF desc THEN Reverse(SubSeq(s, 1, n)) ELSE SubSeq(s, 1, n)
         IN BinarySort(K, run \o SubSeq(s, n + 1, Len(s)), n + 1)

\* list.sort(reverse=True): reverse, sort ascending, reverse again.
ListSortReverse(K, s) == Reverse(ListSort(K, Reverse(s)))

Indices(K) == [i \in 1..Len(K) |-> i]

(***************************************************************************)
(* median and percentage                                                   *)
(***************************************************************************)
\* A plausible slip: the list is not sorted before the middle is taken.
median_unsorted(a) ==
    LET size == Len(a)
    IN IF size = 1 THEN a[1]
       ELSE IF size % 2 = 0
            THEN FDiv(FAdd(a[size \div 2], a[(size \div 2) + 1]), Num(2))
            ELSE a[((size - 1) \div 2) + 1]

median(a) ==
    LET size == Len(a)
        perm == ListSort(a, Indices(a))
        sorted == [i \in 1..size |-> a[perm[i]]]
    IN IF size = 1 THEN a[1]
       ELSE IF size % 2 = 0
            THEN FDiv(FAdd(sorted[size \div 2], sorted[(size \div 2) + 1]), Num(2))
            ELSE sorted[((size - 1) \div 2) + 1]

\* 100 * float(part) / total raises ZeroDivisionError exactly when total is 0.
percentage_raises(part, total) == IsZero(total)
percentage(part, total) == FDiv(<<100 * part[1], part[2]>>, total)

(***************************************************************************)
(* get_latest_logfile                                                      *)
(***************************************************************************)
LOGFILE_STEM == "nginx-access-ui.log-"

\* The directory entries the scan may meet.
DirEntries ==
    {[stem |-> LOGFILE_STEM, digits |-> d, suffix |-> ".gz", isfile |-> TRUE] :
        d \in {"20200101", "20200102", "01012020", "20190229"}}
    \cup {[stem |-> LOGFILE_STEM, digits |-> "20200102", suffix |-> "", isfile |-> TRUE],
          [stem |-> LOGFILE_STEM, digits |-> "20200103", suffix |-> ".bz2", isfile |-> TRUE],
          [stem |-> "nginx-access.log-", digits |-> "20200104", suffix |-> ".gz", isfile |-> TRUE],
          [stem |-> LOGFILE_STEM, digits |-> "20200105", suffix |-> ".gz", isfile |-> FALSE]}

Filename(e) == e.stem \o e.digits \o e.suffix

\* LOGFILE_NAME_REGEXP: nginx-access-ui\.log-(\d{8})((\.gz)?)$
RegexpMatches(e) == e.stem = LOGFILE_STEM /\ e.suffix \in {"", ".gz"}

\* The fields %Y%m%d cuts out of the 8 digits: 4, 2 and 2 digits.
DateFields(d) ==
    CASE d = "20200101" -> <<2020, 1, 1>>
      [] d = "20200102" -> <<2020, 1, 2>>
      [] d = "20200103" -> <<2020, 1, 3>>
      [] d = "20200104" -> <<2020, 1, 4>>
      [] d = "20200105" -> <<2020, 1, 5>>
      [] d = "01012020" -> <<101, 20, 20>>
      [] d = "20190229" -> <<2019, 2, 29>>

IsLeap(y) == (y % 4 = 0 /\ y % 100 # 0) \/ y % 400 = 0

DaysInMonth(y, m) ==
    IF m = 2 THEN (IF IsLeap(y) THEN 29 ELSE 28)
    ELSE IF m \in {4, 6, 9, 11} THEN 30 ELSE 31

\* datetime.strptime(datetime_str, '%Y%m%d') raises ValueError.
strptime_raises(d) ==
    LET f == DateFields(d)
    IN ~(f[1] >= 1 /\ f[2] \in 1..12 /\ f[3] >= 1 /\ f[3] <= DaysInMonth(f[1], f[2]))

strptime(d) == DateFields(d)

\* a > b on datetimes.
DateGt(a, b) ==
    \/ a[1] > b[1]
    \/ a[1] = b[1] /\ a[2] > b[2]
    \/ a[1] = b[1] /\ a[2] = b[2] /\ a[3] > b[3]

\* Plausible slips in the comparison of line 102.
IsNewMax_ge(dt, mx) == mx = None \/ ~DateGt(mx[1], dt)
IsNewMax_lt(dt, mx) == mx = None \/ DateGt(mx[1], dt)

\* max_datetime is None or logfile_datetime > max_datetime
IsNewMax(dt, mx) == mx = None \/ DateGt(dt, mx[1])

\* os.path.splitext(latest_logfile)[1]
splitext(e) == IF e.suffix # "" THEN e.suffix ELSE ".log-" \o e.digits

SeqRange(s) == {s[i] : i \in 1..Len(s)}

\* One iteration of the loop over os.listdir(log_dir).
ScanEntry(e) ==
    /\ pc = "scan"
    /\ Len(scanned) < MaxFiles
    /\ \A i \in 1..Len(scanned) : Filename(scanned[i]) # Filename(e)
    /\ scanned' = Append(scanned, e)
    /\ IF e.isfile /\ RegexpMatches(e) /\ ~strptime_raises(e.digits)
          /\ IsNewMax(strptime(e.digits), max_datetime)
       THEN /\ max_datetime' = Some(strptime(e.digits))
            /\ latest_logfile' = Some(e)
       ELSE UNCHANGED <<max_datetime, latest_logfile>>
    /\ UNCHANGED <<pc, calls, logfile, error_limit, consumed, yielded, rows_count,
                   errors_count, total_duration, rows_by_url, values_order, rows,
                   report, error, arr, med>>

\* The loop is over: return None or the LogFile.
GetLatestReturn ==
    /\ pc = "scan"
    /\ logfile' = IF latest_logfile = None THEN None
                  ELSE Some([path |-> Filename(latest_logfile[1]),
                             date |-> max_datetime[1],
                             ext |-> splitext(latest_logfile[1])])
    /\ pc' = "located"
    /\ UNCHANGED <<calls, scanned, max_datetime, latest_logfile, error_limit, consumed,
                   yielded, rows_count, errors_count, total_duration, rows_by_url,
                   values_order, rows, report, error, arr, med>>

(***************************************************************************)
(* logfile_generator                                                       *)
(***************************************************************************)
\* The first six tokens of an access-log line.
LinePrefix == <<"1.2.3.4", "-", "-", "[29/Jun/2017:03:50:22", "+0300]", "\"GET">>

MkLine(url, last) == LinePrefix \o <<url, "HTTP/1.1\"", "200", last>>

\* The lines the log file may hold.
Lines ==
    {LinePrefix,                            \* six tokens
     LinePrefix \o <<"0.000">>,             \* seven tokens: the url is the last token
     MkLine("/a", "-"),                     \* the last token is no float
     MkLine("/a", "1.000"),
     MkLine("/a", "-1.000"),
     MkLine("/b", "1.000"),
     MkLine("/b", "2.000"),
     MkLine("/c", "nan")}

\* float(token) raises ValueError.
float_raises(tok) == tok \notin {"0.000", "1.000", "2.000", "-1.000", "nan"}

\* float(token)
float(tok) ==
    CASE tok = "0.000" -> Num(0)
      [] tok = "1.000" -> Num(1)
      [] tok = "2.000" -> Num(2)
      [] tok = "-1.000" -> Num(-1)
      [] tok = "nan" -> NaN

LogFileRow(url, duration) == [url |-> url, duration |-> duration]

\* A plausible slip: the url is taken one token too far.
logfile_row_off_by_one(parts) ==
    IF Len(parts) < 8 \/ float_raises(parts[Len(parts)])
    THEN LogFileRow(None, None)
    ELSE LogFileRow(Some(parts[8]), Some(float(parts[Len(parts)])))

\* The row yielded for one line: parts[6] and float(parts[-1]), or
\* (None, None) on IndexError or ValueError.
logfile_row(parts) ==
    IF Len(parts) < 7 \/ float_raises(parts[Len(parts)])
    THEN LogFileRow(None, None)
    ELSE LogFileRow(Some(parts[7]), Some(float(parts[Len(parts)])))

(***************************************************************************)
(* calculate                                                               *)
(***************************************************************************)
EmptyDict == [u \in {} |-> None]

\* A plausible slip: a url seen again starts over instead of being added to.
add_row_restart(d, url, duration) ==
    [u \in DOMAIN d \cup {url} |->
        IF u = url THEN [url |-> url, count |-> 1, durations |-> <<duration>>]
        ELSE d[u]]

\* Lines 219-223: create the url's entry if needed, count the row, keep its duration.
add_row(d, url, duration) ==
    LET old == IF url \in DOMAIN d THEN d[url]
               ELSE [url |-> url, count |-> 0, durations |-> <<>>]
    IN [u \in DOMAIN d \cup {url} |->
           IF u = url THEN [url |-> url, count |-> old.count + 1,
                            durations |-> Append(old.durations, duration)]
           ELSE d[u]]

\* The generator yields the row of the next line and the loop body handles it.
ReadRow(line) ==
    /\ pc = "read"
    /\ Len(consumed) < MaxRows
    /\ consumed' = Append(consumed, line)
    /\ LET row == logfile_row(line)
       IN /\ yielded' = Append(yielded, row)
          /\ rows_count' = rows_count + 1
          /\ IF row.url = None \/ row.duration = None
             THEN /\ errors_count' = errors_count + 1
                  /\ UNCHANGED <<total_duration, rows_by_url>>
             ELSE /\ total_duration' = FAdd(total_duration, row.duration[1])
                  /\ rows_by_url' = add_row(rows_by_url, row.url[1], row.duration[1])
                  /\ UNCHANGED errors_count
    /\ UNCHANGED <<pc, calls, scanned, max_datetime, latest_logfile, logfile, error_limit,
                   values_order, rows, report, error, arr, med>>

\* opener(...) or a read of the file raises IOError.
ReadIOError ==
    /\ pc = "read"
    /\ pc' = "failed"
    /\ error' = "IOError"
    /\ UNCHANGED <<calls, scanned, max_datetime, latest_logfile, logfile, error_limit,
                   consumed, yielded, rows_count, errors_count, total_duration,
                   rows_by_url, values_order, rows, report, arr, med>>

\* A plausible slip: >= instead of >.
errors_too_high_ge(perc, limit) == ~FLt(perc, limit)

\* errors_percentage > error_limit_perc_allowed
errors_too_high(perc, limit) == FLt(limit, perc)

\* The file is at its end: lines 225-230.
ThresholdCheck ==
    /\ pc = "read"
    /\ IF percentage_raises(Num(errors_count), Num(rows_count))
       THEN pc' = "failed" /\ error' = "ZeroDivisionError"
       ELSE IF errors_too_high(percentage(Num(errors_count), Num(rows_count)), error_limit)
            THEN pc' = "failed" /\ error' = "Error percentage limit"
            ELSE pc' = "finalize" /\ UNCHANGED error
    /\ UNCHANGED <<calls, scanned, max_datetime, latest_logfile, logfile, error_limit,
                   consumed, yielded, rows_count, errors_count, total_duration,
                   rows_by_url, values_order, rows, report, arr, med>>

\* Lines 233-239 for one entry.
finalized(data) ==
    [url |-> data.url,
     count |-> data.count,
     count_perc |-> percentage(Num(data.count), Num(rows_count)),
     time_sum |-> FSum(data.durations),
     time_perc |-> percentage(FSum(data.durations), total_duration),
     time_avg |-> FDiv(FSum(data.durations), Num(Len(data.durations))),
     time_max |-> FMax(data.durations),
     time_med |-> median(data.durations)]

\* The loop of lines 232-239.  The first entry it reaches raises
\* ZeroDivisionError when total_duration is 0; the locals are then dead.
Finalize ==
    /\ pc = "finalize"
    /\ IF DOMAIN rows_by_url # {} /\ IsZero(total_duration)
       THEN /\ pc' = "failed"
            /\ error' = "ZeroDivisionError"
            /\ UNCHANGED rows_by_url
       ELSE /\ pc' = "sort"
            /\ rows_by_url' = [u \in DOMAIN rows_by_url |-> finalized(rows_by_url[u])]
            /\ UNCHANGED error
    /\ UNCHANGED <<calls, scanned, max_datetime, latest_logfile, logfile, error_limit,
                   consumed, yielded, rows_count, errors_count, total_duration,
                   values_order, rows, report, arr, med>>

\* The orders in which a Python 2 dict may list its keys.
Perms(S) == {p \in [1..Cardinality(S) -> S] : \A i, j \in DOMAIN p : i # j => p[i] # p[j]}

TimeSums(vals) == [i \in 1..Len(vals) |-> vals[i].time_sum]

\* A plausible slip: sort ascending and reverse the result.
sorted_rows_reversed(vals) ==
    LET perm == Reverse(ListSort(TimeSums(vals), Indices(vals)))
    IN [i \in 1..Len(vals) |-> vals[perm[i]]]

\* sorted(values, key=lambda x: x['time_sum'], reverse=True)
sorted_rows(vals) ==
    LET perm == ListSortReverse(TimeSums(vals), Indices(vals))
    IN [i \in 1..Len(vals) |-> vals[perm[i]]]

\* Lines 241-247: rows_by_url.values() in the dict's order, sorted, returned.
SortAndReturn(order) ==
    /\ pc = "sort"
    /\ values_order' = order
    /\ rows' = Some(sorted_rows([i \in 1..Len(order) |-> rows_by_url[order[i]]]))
    /\ pc' = "calculated"
    /\ UNCHANGED <<calls, scanned, max_datetime, latest_logfile, logfile, error_limit,
                   consumed, yielded, rows_count, errors_count, total_duration,
                   rows_by_url, report, error, arr, med>>

(***************************************************************************)
(* main                                                                    *)
(***************************************************************************)
\* Values of cfg['ERROR_LIMIT_PERCENTAGE'] and cfg['REPORT_SIZE'].
Limits == {-1, 25, 50, 100}
ReportSizes == {1, 1000}

\* Line 288: main calls get_latest_logfile.
MainStart ==
    /\ pc = "main"
    /\ pc' = "scan"
    /\ calls' = Append(calls, "get_latest_logfile")
    /\ UNCHANGED <<scanned, max_datetime, latest_logfile, logfile, error_limit, consumed,
                   yielded, rows_count, errors_count, total_duration, rows_by_url,
                   values_order, rows, report, error, arr, med>>

\* A plausible slip: the return of line 295 is missing.
MainNoLogfile_no_return ==
    /\ pc = "located"
    /\ logfile = None
    /\ pc' = "read"
    /\ calls' = calls \o <<"get_report_path", "calculate">>
    /\ UNCHANGED <<scanned, max_datetime, latest_logfile, logfile, error_limit, consumed,
                   yielded, rows_count, errors_count, total_duration, rows_by_url,
                   values_order, rows, report, error, arr, med>>

\* Lines 293-295: no log file was found, the run ends.
MainNoLogfile ==
    /\ pc = "located"
    /\ logfile = None
    /\ pc' = "done"
    /\ scanned' = <<>>
    /\ UNCHANGED <<calls, max_datetime, latest_logfile, logfile, error_limit, consumed,
                   yielded, rows_count, errors_count, total_duration, rows_by_url,
                   values_order, rows, report, error, arr, med>>

\* Lines 297-301: the report is there already and is not to be rewritten.
MainReportExists ==
    /\ pc = "located"
    /\ logfile # None
    /\ pc' = "done"
    /\ calls' = Append(calls, "get_report_path")
    /\ scanned' = <<>>
    /\ max_datetime' = None
    /\ latest_logfile' = None
    /\ UNCHANGED <<logfile, error_limit, consumed, yielded, rows_count, errors_count,
                   total_duration, rows_by_url, values_order, rows, report, error,
                   arr, med>>

\* Lines 297-304 and 201-208: main calls calculate, which sets up its locals.
MainCalculate(limit) ==
    /\ pc = "located"
    /\ logfile # None
    /\ pc' = "read"
    /\ calls' = calls \o <<"get_report_path", "calculate">>
    /\ error_limit' = Num(limit)
    /\ rows_count' = 0
    /\ errors_count' = 0
    /\ total_duration' = Num(0)
    /\ rows_by_url' = EmptyDict
    /\ scanned' = <<>>
    /\ max_datetime' = None
    /\ latest_logfile' = None
    /\ UNCHANGED <<logfile, consumed, yielded, values_order, rows, report, error,
                   arr, med>>

\* rows[0:report_size] when report_size < len(rows)
truncated(r, report_size) == IF report_size < Len(r) THEN SubSeq(r, 1, report_size) ELSE r

\* Lines 305-312: calculate has returned; truncate and render.
MainRender(report_size) ==
    /\ pc = "calculated"
    /\ rows' = Some(truncated(rows[1], report_size))
    /\ report' = Some(truncated(rows[1], report_size))
    /\ calls' = Append(calls, "render_report")
    /\ pc' = "done"
    /\ UNCHANGED <<scanned, max_datetime, latest_logfile, logfile, error_limit, consumed,
                   yielded, rows_count, errors_count, total_duration, rows_by_url,
                   values_order, error, arr, med>>

Init ==
    /\ pc = "main"
    /\ calls = <<>>
    /\ scanned = <<>>
    /\ max_datetime = None
    /\ latest_logfile = None
    /\ logfile = None
    /\ error_limit = None
    /\ consumed = <<>>
    /\ yielded = <<>>
    /\ rows_count = 0
    /\ errors_count = 0
    /\ total_duration = Num(0)
    /\ rows_by_url = EmptyDict
    /\ values_order = <<>>
    /\ rows = None
    /\ report = None
    /\ error = "none"
    /\ arr = <<>>
    /\ med = None

Next ==
    \/ MainStart
    \/ \E e \in DirEntries : ScanEntry(e)
    \/ GetLatestReturn
    \/ MainNoLogfile
    \/ MainReportExists
    \/ \E limit \in Limits : MainCalculate(limit)
    \/ \E line \in Lines : ReadRow(line)
    \/ ReadIOError
    \/ ThresholdCheck
    \/ Finalize
    \/ \E order \in Perms(DOMAIN rows_by_url) : SortAndReturn(order)
    \/ \E report_size \in ReportSizes : MainRender(report_size)

Spec == Init /\ [][Next]_vars

(***************************************************************************)
(* median on its own: every list of up to MaxArr numbers                   *)
(***************************************************************************)
MedianValues == {-1, 0, 1, 3}

RECURSIVE SeqsUpTo(_, _)
SeqsUpTo(S, n) ==
    IF n = 0 THEN {<<>>}
    ELSE LET shorter == SeqsUpTo(S, n - 1)
         IN shorter \cup {Append(q, x) : q \in {t \in shorter : Len(t) = n - 1}, x \in S}

InitMedian ==
    /\ pc = "median"
    /\ arr \in {a \in SeqsUpTo({Num(v) : v \in MedianValues}, MaxArr) : Len(a) >= 1}
    /\ med = None
    /\ calls = <<>>
    /\ scanned = <<>>
    /\ max_datetime = None
    /\ latest_logfile = None
    /\ logfile = None
    /\ error_limit = None
    /\ consumed = <<>>
    /\ yielded = <<>>
    /\ rows_count = 0
    /\ errors_count = 0
    /\ total_duration = Num(0)
    /\ rows_by_url = EmptyDict
    /\ values_order = <<>>
    /\ rows = None
    /\ report = None
    /\ error = "none"

MedianCall ==
    /\ pc = "median"
    /\ med' = Some(median(arr))
    /\ pc' = "median_done"
    /\ UNCHANGED <<calls, scanned, max_datetime, latest_logfile, logfile, error_limit,
                   consumed, yielded, rows_count, errors_count, total_duration,
                   rows_by_url, values_order, rows, report, error, arr>>

NextMedian == MedianCall

SpecMedian == InitMedian /\ [][NextMedian]_vars

(***************************************************************************)
(* The claims                                                              *)
(***************************************************************************)
\* What the claims count, taken from the input and the yielded rows.
RowIsError(row) == row.url = None \/ row.duration = None
ErrorRows == {i \in 1..Len(yielded) : RowIsError(yielded[i])}
GoodRows == (1..Len(yielded)) \ ErrorRows
SeenUrls == {yielded[i].url[1] : i \in GoodRows}
FirstSeen(u) == CHOOSE i \in GoodRows :
                    /\ yielded[i].url[1] = u
                    /\ \A j \in GoodRows : j < i => yielded[j].url[1] # u
RateAboveLimit == 100 * Cardinality(ErrorRows) > error_limit[1] * Len(consumed)
ThresholdFailed == pc = "failed" /\ error = "Error percentage limit"
PastThresholdCheck ==
    \/ pc \in {"finalize", "sort", "calculated"}
    \/ pc = "failed" /\ error # "IOError"
    \/ pc = "done" /\ rows # None

RECURSIVE SumCounts(_, _)
SumCounts(r, i) == IF i > Len(r) THEN 0 ELSE r[i].count + SumCounts(r, i + 1)

\* a >= b on floats
FGe(a, b) == ~IsNaN(a) /\ ~IsNaN(b) /\ a[1] * b[2] >= b[1] * a[2]

\* C1: with at least one row consumed, calculate fails with the threshold
\* error exactly when 100 * errors / total > limit (a rate equal to the limit
\* passes), and a run that failed so has returned no rows.
C1_ThresholdIffRateAboveLimit ==
    (PastThresholdCheck /\ Len(consumed) >= 1) =>
        /\ ThresholdFailed <=> RateAboveLimit
        /\ ThresholdFailed => rows = None /\ report = None

C1_Witness ==
    /\ ThresholdFailed
    /\ Cardinality(ErrorRows) = 2
    /\ Len(consumed) = 3
    /\ error_limit = Num(50)

\* C2: calculate never fails with a division by zero (an empty file has error
\* rate 0, a grand total duration of 0 gives every entry the time share 0).
C2_NeverDivisionByZero == error # "ZeroDivisionError"

\* C3: when calculate returns, the counts of the returned entries plus the
\* number of error rows equal the number of rows consumed; and a row with an
\* absent url or duration raises the two counters by one and changes neither
\* the grand total duration nor any per-URL entry.
C3_CountsAtReturn ==
    pc = "calculated" =>
        SumCounts(rows[1], 1) + Cardinality(ErrorRows) = Len(consumed)

C3_ErrorRowStep ==
    (pc = "read" /\ Len(yielded') = Len(yielded) + 1 /\ RowIsError(yielded'[Len(yielded')])) =>
        /\ rows_count' = rows_count + 1
        /\ errors_count' = errors_count + 1
        /\ total_duration' = total_duration
        /\ rows_by_url' = rows_by_url

\* C3: both parts, the count at the return and the step of an error row.
C3_CountsAddUp == [](C3_CountsAtReturn) /\ [][C3_ErrorRowStep]_vars

C3_Witness ==
    /\ pc = "calculated"
    /\ Cardinality(ErrorRows) = 1
    /\ Len(rows[1]) = 1
    /\ rows[1][1].count = 2

\* C4: when calculate returns, the list holds exactly one entry per distinct
\* url of a successfully parsed row, and every adjacent pair (a, b) has
\* a.time_sum >= b.time_sum.
C4_OneEntryPerUrlSortedDescending ==
    pc = "calculated" =>
        /\ Len(rows[1]) = Cardinality(SeenUrls)
        /\ {rows[1][i].url : i \in 1..Len(rows[1])} = SeenUrls
        /\ \A i \in 1..(Len(rows[1]) - 1) : FGe(rows[1][i].time_sum, rows[1][i + 1].time_sum)

\* C4 where it does hold: on input whose durations hold no NaN.
C4_SortedWhenNoNaN ==
    (pc = "calculated" /\ \A i \in GoodRows : ~IsNaN(yielded[i].duration[1])) =>
        /\ Len(rows[1]) = Cardinality(SeenUrls)
        /\ {rows[1][i].url : i \in 1..Len(rows[1])} = SeenUrls
        /\ \A i \in 1..(Len(rows[1]) - 1) : FGe(rows[1][i].time_sum, rows[1][i + 1].time_sum)

\* C5: get_latest_logfile returns None exactly when no scanned entry is
\* eligible (a regular file matching the pattern whose digits are a valid
\* date); otherwise it returns an eligible entry whose date no other eligible
\* entry exceeds.
Eligible(e) == e.isfile /\ e.stem = LOGFILE_STEM /\ e.suffix \in {"", ".gz"}
               /\ ~strptime_raises(e.digits)
EligibleScanned == {i \in 1..Len(scanned) : Eligible(scanned[i])}

C5_LatestEligibleOrNone ==
    pc = "located" =>
        /\ logfile = None <=> EligibleScanned = {}
        /\ logfile # None =>
              /\ \E i \in EligibleScanned :
                    /\ logfile[1].path = Filename(scanned[i])
                    /\ logfile[1].date = DateFields(scanned[i].digits)
              /\ \A j \in EligibleScanned :
                    ~DateGt(DateFields(scanned[j].digits), logfile[1].date)

C5_Witness ==
    /\ pc = "located"
    /\ Len(scanned) = 3
    /\ Cardinality(EligibleScanned) = 2
    /\ \E i \in 1..Len(scanned) : RegexpMatches(scanned[i]) /\ strptime_raises(scanned[i].digits)
    /\ logfile # None
    /\ logfile[1].path = Filename(scanned[1])
    /\ logfile[1].date = <<2020, 1, 2>>

\* C6: for a non-empty list of numbers, median is the middle element of the
\* list sorted ascending (odd length) or the average of the two middle
\* elements (even length); it lies between the minimum and the maximum and
\* every permutation of the list has the same median.
IndexPerms(n) == {p \in [1..n -> 1..n] : \A i, j \in 1..n : i # j => p[i] # p[j]}
Ascending(a) == CHOOSE s \in {[i \in 1..Len(a) |-> a[p[i]]] : p \in IndexPerms(Len(a))} :
                    \A i \in 1..(Len(s) - 1) : ~FLt(s[i + 1], s[i])

C6_MedianIsMiddle ==
    pc = "median_done" =>
        LET n == Len(arr)
            s == Ascending(arr)
        IN /\ IF n % 2 = 1
              THEN FEq(med[1], s[(n + 1) \div 2])
              ELSE FEq(med[1], FDiv(FAdd(s[n \div 2], s[(n \div 2) + 1]), Num(2)))
           /\ FGe(med[1], s[1])
           /\ FGe(s[n], med[1])
           /\ \A p \in IndexPerms(n) : FEq(median([i \in 1..n |-> arr[p[i]]]), med[1])

C6_Witness ==
    /\ pc = "median_done"
    /\ arr = <<Num(3), Num(-1), Num(1), Num(0)>>
    /\ med = Some(<<1, 2>>)

C8_ReportOnlyAfterCalculate ==
    /\ ("render_report" \in SeqRange(calls) \/ report # None) =>
          /\ rows # None
          /\ error = "none"
          /\ \E i, j \in 1..Len(calls) : i < j /\ calls[i] = "calculate" /\ calls[j] = "render_report"
    /\ (pc \notin {"main", "scan"} /\ logfile = None) =>
          /\ pc \in {"located", "done"}
          /\ calls = <<"get_latest_logfile">>
          /\ report = None
    /\ pc = "failed" =>
          /\ error # "none"
          /\ report = None
          /\ "render_report" \notin SeqRange(calls)

C8_Witness ==
    /\ pc = "done"
    /\ report # None
    /\ Len(report[1]) = 1
    /\ calls = <<"get_latest_logfile", "get_report_path", "calculate", "render_report">>

\* C9 as stated: entries with exactly equal time_sum are returned in the
\* order in which their urls first appeared in the row sequence.
C9_TiesInFirstSeenOrder ==
    pc = "calculated" =>
        \A i, j \in 1..Len(rows[1]) :
            (i < j /\ FEq(rows[1][i].time_sum, rows[1][j].time_sum)) =>
                FirstSeen(rows[1][i].url) < FirstSeen(rows[1][j].url)

\* C9 as amended: when no time_sum is NaN, entries with exactly equal
\* time_sum are returned in the order in which rows_by_url.values() listed
\* them (the order of a Python 2 dict, which is not the order of insertion);
\* the sort is stable and uses no secondary key.
PosIn(s, x) == CHOOSE i \in 1..Len(s) : s[i] = x

C9_TiesInValuesOrder ==
    (pc = "calculated" /\ \A i \in 1..Len(rows[1]) : ~IsNaN(rows[1][i].time_sum)) =>
        \A i, j \in 1..Len(rows[1]) :
            (i < j /\ FEq(rows[1][i].time_sum, rows[1][j].time_sum)) =>
                PosIn(values_order, rows[1][i].url) < PosIn(values_order, rows[1][j].url)

C9_Witness ==
    /\ pc = "calculated"
    /\ Len(rows[1]) = 3
    /\ FEq(rows[1][1].time_sum, rows[1][2].time_sum)
    /\ FLt(rows[1][3].time_sum, rows[1][2].time_sum)
    /\ FirstSeen(rows[1][2].url) < FirstSeen(rows[1][1].url)
    /\ PosIn(values_order, rows[1][1].url) < PosIn(values_order, rows[1][2].url)

\* C10 as stated: when eligible files share the maximal date, the one met last
\* in the scan is returned.
MaxDateScanned ==
    {i \in EligibleScanned :
        \A j \in EligibleScanned :
            ~DateGt(DateFields(scanned[j].digits), DateFields(scanned[i].digits))}

C10_TieLastWins ==
    (pc = "located" /\ Cardinality(MaxDateScanned) >= 2) =>
        logfile[1].path = Filename(scanned[CHOOSE i \in MaxDateScanned :
                                               \A j \in MaxDateScanned : j <= i])

\* C10 as amended: when eligible files share the maximal date, the one met
\* first in the scan is returned.
C10_TieFirstWins ==
    (pc = "located" /\ Cardinality(MaxDateScanned) >= 2) =>
        logfile[1].path = Filename(scanned[CHOOSE i \in MaxDateScanned :
                                               \A j \in MaxDateScanned : i <= j])

C10_Witness ==
    /\ pc = "located"
    /\ Cardinality(MaxDateScanned) = 2
    /\ Len(scanned) = 3
    /\ MaxDateScanned = {2, 3}
    /\ logfile[1].path = Filename(scanned[2])

====
